---- MODULE Spec2Model ----
(***************************************************************************)
(* The messaging bridge of robot-face: the zenoh worker thread             *)
(* (src/src/messaging.rs), the tokio mpsc channel it feeds, the display    *)
(* task it spawns per session, and the bevy system that drains the channel *)
(* into the noise generator settings (src/src/noise_plugin.rs).            *)
(***************************************************************************)
EXTENDS Integers, Sequences, FiniteSets, TLC

VARIABLES
    wpc,            \* where the worker thread is inside loop { run_zenoh_loop }
    iter,           \* number of calls of run_zenoh_loop made so far
    sinbox,         \* samples queued in the live settings_subscriber
    pending,        \* the decoded settings_update held by tx.send(..).await
    chan,           \* the mpsc channel's queue
    rxClosed,       \* the StreamReceiver has been dropped (host shut down)
    settings,       \* NoiseGeneratorSettings resource
    octaves,        \* octaves of NoiseGenerator.generator
    dtask,          \* the spawned display tasks, by the iteration that spawned them
    errors_logged,  \* number of error!("Zenoh loop failed") lines written
    spub,           \* history: number of samples published on face/settings
    dpub,           \* history: number of samples published on face/display
    deliveredLog,   \* history: samples returned by settings_subscriber.recv_async()
    sentLog,        \* history: ids of the updates tx.send accepted
    appliedLog,     \* history: ids of the updates try_recv returned to the host
    setOctavesLog,  \* history: arguments of the set_octaves calls
    calls,          \* history: the turn_on_display / turn_off_display invocations made
    lastCall,       \* history: the latest of them
    lastEnd,        \* history: how the latest call of run_zenoh_loop ended
    tickStart,      \* history: settings and octaves when the running tick began
    tickUpdates     \* history: the updates the running tick has drained so far

vars == <<wpc, iter, sinbox, pending, chan, rxClosed, settings, octaves, dtask,
          errors_logged, spub, dpub, deliveredLog, sentLog, appliedLog,
          setOctavesLog, calls, lastCall, lastEnd, tickStart, tickUpdates>>

workerVars == <<wpc, iter, sinbox, pending, errors_logged, deliveredLog, lastEnd>>
hostVars == <<settings, octaves, appliedLog, setOctavesLog, tickStart, tickUpdates>>
displayVars == <<dtask, dpub, calls, lastCall>>

----------------------------------------------------------------------------
(* Bounds of the model *)

MaxIterations == 2
MaxSettingsMsgs == 3
MaxDisplayMsgs == 2
MaxSettingsMsgsDisplay == 1
BurstSize == 15

----------------------------------------------------------------------------
(* Program constants *)

\* channel::<NoiseGeneratorSettingsUpdate>(10)
ChannelCapacity == 10

WIDTH_DIVIDER == 60
HEIGHT_MULTIPLIER == 400
SEGMENT_WIDTH == 5
FRAME_TIME_DIVIDER == 8
PERLIN_NOISE_OCTAVES == 2

----------------------------------------------------------------------------
(* Option<T>: None is the empty set, Some(v) is {v} *)

None == {}
Some(v) == {v}
Unwrap(o) == CHOOSE v \in o : TRUE

SettingsFields ==
    {"width_divider", "height_multiplier", "segment_width", "frame_time_divider"}

UpdateFields == SettingsFields \cup {"perlin_noise_octaves"}

\* impl Default for NoiseGeneratorSettings
DefaultSettings ==
    [width_divider |-> WIDTH_DIVIDER,
     height_multiplier |-> HEIGHT_MULTIPLIER,
     segment_width |-> SEGMENT_WIDTH,
     frame_time_divider |-> FRAME_TIME_DIVIDER]

----------------------------------------------------------------------------
(* Payloads on the wire.  A payload is a zenoh Value: text or not; when it *)
(* is text it is a JSON object (a function from its keys) or not JSON.     *)

Json(o) == [text |-> TRUE, json |-> TRUE, obj |-> o]
BadJson == [text |-> TRUE, json |-> FALSE, obj |-> <<>>]
NonText == [text |-> FALSE, json |-> FALSE, obj |-> <<>>]

\* message.value.try_into::<String>()
ValueIsString(p) == p.text

\* serde_json::from_str::<NoiseGeneratorSettingsUpdate>: every field is
\* #[serde(default)] Option<_>, unknown keys are ignored
ParseSettingsUpdate(o) ==
    [f \in UpdateFields |-> IF f \in DOMAIN o THEN Some(o[f]) ELSE None]

\* serde_json::from_str::<DisplayControlMessage>: #[serde(default)] display_on: bool
ParseDisplayControlMessage(o) ==
    [display_on |-> IF "display_on" \in DOMAIN o THEN o["display_on"] ELSE FALSE]

\* The face/settings payloads the model publishes
SettingsPayloads ==
    { Json("width_divider" :> 30),
      Json(("perlin_noise_octaves" :> 4) @@ ("unknown_key" :> 1)),
      BadJson,
      NonText }

\* The face/settings payloads published next to face/display traffic
FewSettingsPayloads ==
    { Json("width_divider" :> 30),
      BadJson }

\* The face/display payloads the model publishes
DisplayPayloads ==
    { Json(<<>>),
      Json("display_on" :> TRUE),
      Json("display_on" :> FALSE),
      BadJson,
      NonText }

\* The i-th payload of a burst: one field carrying the message's number, and
\* every sixth message the empty object
BurstPayload(i) ==
    CASE i % 6 = 1 -> Json("width_divider" :> i)
      [] i % 6 = 2 -> Json("height_multiplier" :> i)
      [] i % 6 = 3 -> Json("segment_width" :> i)
      [] i % 6 = 4 -> Json("frame_time_divider" :> i)
      [] i % 6 = 5 -> Json("perlin_noise_octaves" :> i)
      [] OTHER -> Json(<<>>)

----------------------------------------------------------------------------
(* The host's merge of one update *)

\* (mutant) record-level merge: a field the update leaves out falls back to its default
ApplySettingsRecordLevel(s, m) ==
    [width_divider |->
        IF m.width_divider # None THEN Unwrap(m.width_divider) ELSE WIDTH_DIVIDER,
     height_multiplier |->
        IF m.height_multiplier # None THEN Unwrap(m.height_multiplier) ELSE HEIGHT_MULTIPLIER,
     segment_width |->
        IF m.segment_width # None THEN Unwrap(m.segment_width) ELSE SEGMENT_WIDTH,
     frame_time_divider |->
        IF m.frame_time_divider # None THEN Unwrap(m.frame_time_divider) ELSE FRAME_TIME_DIVIDER]

\* the four `if let Some(x) = message.x { noise_generator_settings.x = x }`
ApplySettings(s, m) ==
    [width_divider |->
        IF m.width_divider # None THEN Unwrap(m.width_divider) ELSE s.width_divider,
     height_multiplier |->
        IF m.height_multiplier # None THEN Unwrap(m.height_multiplier) ELSE s.height_multiplier,
     segment_width |->
        IF m.segment_width # None THEN Unwrap(m.segment_width) ELSE s.segment_width,
     frame_time_divider |->
        IF m.frame_time_divider # None THEN Unwrap(m.frame_time_divider) ELSE s.frame_time_divider]

\* if let Some(n) = message.perlin_noise_octaves { generator = generator.set_octaves(n) }
ApplyOctaves(o, m) ==
    IF m.perlin_noise_octaves # None THEN Unwrap(m.perlin_noise_octaves) ELSE o

----------------------------------------------------------------------------
(* The channel *)

NoPending == [id |-> 0, update |-> ParseSettingsUpdate(<<>>)]

\* (mutant) a channel without a capacity
ChannelHasRoomUnbounded == TRUE

\* the bounded channel has a free permit
ChannelHasRoom == Len(chan) < ChannelCapacity

\* (mutant) the value is put at the head of the queue
EnqueueFront(q, m) == <<m>> \o q

\* tx.send(settings_update): the value goes to the tail of the queue
Enqueue(q, m) == Append(q, m)

\* (mutant) a receive that also discards the value behind the one it returns
TryRecvRestSkipping(q) == IF Len(q) >= 2 THEN Tail(Tail(q)) ELSE Tail(q)

\* receiver.try_recv() is Ok(message): what stays queued
TryRecvRest(q) == Tail(q)

----------------------------------------------------------------------------
(* Sessions and display tasks *)

Spawned == DOMAIN dtask

\* a display task that has neither finished nor panicked; it owns its
\* display_subscriber, which holds the Arc<Session> it was declared on
TaskAlive(s) == s \in Spawned /\ dtask[s].st # "dead"

LiveDisplayTasks == {s \in Spawned : TaskAlive(s)}

\* settings_subscriber is a local of run_zenoh_loop: it exists from its
\* declaration until run_zenoh_loop returns
SettingsSubscribed == wpc \in {"sub_display", "recv", "send"}

NoCall == [id |-> 0, session |-> 0, on |-> FALSE, payload |-> Json(<<>>)]

DeadTask == [st |-> "dead", inbox |-> <<>>, cur |-> 0]

----------------------------------------------------------------------------
(* start_zenoh_worker: the state after construction *)

Init ==
    /\ wpc = "open"
    /\ iter = 0
    /\ sinbox = <<>>
    /\ pending = NoPending
    /\ chan = <<>>
    /\ rxClosed = FALSE
    /\ settings = DefaultSettings
    /\ octaves = PERLIN_NOISE_OCTAVES
    /\ dtask = <<>>
    /\ errors_logged = 0
    /\ spub = 0
    /\ dpub = 0
    /\ deliveredLog = <<>>
    /\ sentLog = <<>>
    /\ appliedLog = <<>>
    /\ setOctavesLog = <<>>
    /\ calls = {}
    /\ lastCall = NoCall
    /\ lastEnd = "none"
    /\ tickStart = [settings |-> DefaultSettings, octaves |-> PERLIN_NOISE_OCTAVES]
    /\ tickUpdates = <<>>

----------------------------------------------------------------------------
(* The worker: loop { if let Err(error) = run_zenoh_loop(&mut tx).await    *)
(*                        { error!(?error, "Zenoh loop failed"); } }       *)

\* (mutant) the settings subscriber outlives the run that declared it
ReturnErrKeepingSubscriber(cause) ==
    /\ wpc' = "open"
    /\ sinbox' = sinbox
    /\ pending' = NoPending
    /\ errors_logged' = errors_logged + 1
    /\ lastEnd' = cause

\* (mutant) the worker leaves its loop on the first error
ReturnErrBreak(cause) ==
    /\ wpc' = "exited"
    /\ sinbox' = <<>>
    /\ pending' = NoPending
    /\ errors_logged' = errors_logged + 1
    /\ lastEnd' = cause

\* run_zenoh_loop returns Err: its locals are dropped, the error is logged
\* and the loop calls run_zenoh_loop again
ReturnErr(cause) ==
    /\ wpc' = "open"
    /\ sinbox' = <<>>
    /\ pending' = NoPending
    /\ errors_logged' = errors_logged + 1
    /\ lastEnd' = cause

\* run_zenoh_loop returns Ok(()): its locals are dropped, nothing is logged
\* and the loop calls run_zenoh_loop again
ReturnOk(cause) ==
    /\ wpc' = "open"
    /\ sinbox' = <<>>
    /\ pending' = NoPending
    /\ errors_logged' = errors_logged
    /\ lastEnd' = cause

\* (mutant) a channel that belongs to the session: opening a session makes a
\* new, empty one
OpenSessionNewChannel(ok) ==
    /\ wpc = "open"
    /\ iter < MaxIterations
    /\ iter' = iter + 1
    /\ chan' = <<>>
    /\ IF ok
       THEN /\ wpc' = "sub_settings"
            /\ UNCHANGED <<sinbox, pending, errors_logged, lastEnd>>
       ELSE ReturnErr("open")
    /\ UNCHANGED <<rxClosed, sentLog, deliveredLog, spub>>
    /\ UNCHANGED <<hostVars, displayVars>>

\* zenoh::open(config).res().await ... ?
OpenSession(ok) ==
    /\ wpc = "open"
    /\ iter < MaxIterations
    /\ iter' = iter + 1
    /\ IF ok
       THEN /\ wpc' = "sub_settings"
            /\ UNCHANGED <<sinbox, pending, errors_logged, lastEnd>>
       ELSE ReturnErr("open")
    /\ UNCHANGED <<chan, rxClosed, sentLog, deliveredLog, spub>>
    /\ UNCHANGED <<hostVars, displayVars>>

\* session.declare_subscriber("face/settings").res().await ... ?
DeclareSettingsSubscriber(ok) ==
    /\ wpc = "sub_settings"
    /\ IF ok
       THEN /\ wpc' = "sub_display"
            /\ UNCHANGED <<sinbox, pending, errors_logged, lastEnd>>
       ELSE ReturnErr("subscribe_settings")
    /\ UNCHANGED <<iter, chan, rxClosed, sentLog, deliveredLog, spub>>
    /\ UNCHANGED <<hostVars, displayVars>>

\* (mutant) the display task is spawned before the display subscription is known
\* to be declared
DeclareDisplaySubscriberAfterSpawn(ok) ==
    /\ wpc = "sub_display"
    /\ dtask' = dtask @@ (iter :> [st |-> "recv", inbox |-> <<>>, cur |-> 0])
    /\ IF ok
       THEN /\ wpc' = "recv"
            /\ UNCHANGED <<sinbox, pending, errors_logged, lastEnd>>
       ELSE ReturnErr("subscribe_display")
    /\ UNCHANGED <<iter, chan, rxClosed, sentLog, deliveredLog, spub>>
    /\ UNCHANGED <<hostVars, dpub, calls, lastCall>>

\* session.declare_subscriber("face/display").res().await ... ? followed,
\* with no await in between, by tokio::spawn(async move { ... })
DeclareDisplaySubscriber(ok) ==
    /\ wpc = "sub_display"
    /\ IF ok
       THEN /\ wpc' = "recv"
            /\ dtask' = dtask @@ (iter :> [st |-> "recv", inbox |-> <<>>, cur |-> 0])
            /\ UNCHANGED <<sinbox, pending, errors_logged, lastEnd>>
       ELSE /\ ReturnErr("subscribe_display")
            /\ UNCHANGED dtask
    /\ UNCHANGED <<iter, chan, rxClosed, sentLog, deliveredLog, spub>>
    /\ UNCHANGED <<hostVars, dpub, calls, lastCall>>

\* (mutant) a display call that blocks the runtime's only thread: the settings
\* path receives nothing while a turn_on_display / turn_off_display is running
SettingsRecvBehindDisplayCall ==
    /\ wpc = "recv"
    /\ sinbox # <<>>
    /\ \A s \in DOMAIN dtask : dtask[s].st # "calling"
    /\ LET id == Head(sinbox).id
           p == Head(sinbox).payload
       IN /\ deliveredLog' = Append(deliveredLog, [session |-> iter, id |-> id])
          /\ IF ~ValueIsString(p) THEN ReturnErr("decode_text")
             ELSE IF ~p.json THEN ReturnErr("decode_json")
             ELSE /\ wpc' = "send"
                  /\ sinbox' = Tail(sinbox)
                  /\ pending' = [id |-> id, update |-> ParseSettingsUpdate(p.obj)]
                  /\ UNCHANGED <<errors_logged, lastEnd>>
    /\ UNCHANGED <<iter, chan, rxClosed, sentLog, spub>>
    /\ UNCHANGED <<hostVars, displayVars>>

\* (mutant) an undecodable sample is skipped and the loop goes on
SettingsRecvSkippingUndecodable ==
    /\ wpc = "recv"
    /\ sinbox # <<>>
    /\ LET id == Head(sinbox).id
           p == Head(sinbox).payload
       IN /\ deliveredLog' = Append(deliveredLog, [session |-> iter, id |-> id])
          /\ sinbox' = Tail(sinbox)
          /\ IF ~ValueIsString(p) \/ ~p.json
             THEN UNCHANGED <<wpc, pending>>
             ELSE /\ wpc' = "send"
                  /\ pending' = [id |-> id, update |-> ParseSettingsUpdate(p.obj)]
          /\ UNCHANGED <<errors_logged, lastEnd>>
    /\ UNCHANGED <<iter, chan, rxClosed, sentLog, spub>>
    /\ UNCHANGED <<hostVars, displayVars>>

\* (mutant) the worker merges the decoded update into the live settings itself
SettingsRecvWritingSettings ==
    /\ wpc = "recv"
    /\ sinbox # <<>>
    /\ LET id == Head(sinbox).id
           p == Head(sinbox).payload
       IN /\ deliveredLog' = Append(deliveredLog, [session |-> iter, id |-> id])
          /\ IF ~ValueIsString(p)
             THEN ReturnErr("decode_text") /\ UNCHANGED settings
             ELSE IF ~p.json
             THEN ReturnErr("decode_json") /\ UNCHANGED settings
             ELSE /\ wpc' = "send"
                  /\ sinbox' = Tail(sinbox)
                  /\ pending' = [id |-> id, update |-> ParseSettingsUpdate(p.obj)]
                  /\ settings' = ApplySettings(settings, ParseSettingsUpdate(p.obj))
                  /\ UNCHANGED <<errors_logged, lastEnd>>
    /\ UNCHANGED <<iter, chan, rxClosed, sentLog, spub>>
    /\ UNCHANGED <<octaves, appliedLog, setOctavesLog, tickStart, tickUpdates>>
    /\ UNCHANGED displayVars

\* (mutant) a subscriber that keeps a sample queued after handing it out
SettingsRecvKeepingSample ==
    /\ wpc = "recv"
    /\ sinbox # <<>>
    /\ LET id == Head(sinbox).id
           p == Head(sinbox).payload
       IN /\ deliveredLog' = Append(deliveredLog, [session |-> iter, id |-> id])
          /\ IF ~ValueIsString(p) THEN ReturnErr("decode_text")
             ELSE IF ~p.json THEN ReturnErr("decode_json")
             ELSE /\ wpc' = "send"
                  /\ sinbox' = sinbox
                  /\ pending' = [id |-> id, update |-> ParseSettingsUpdate(p.obj)]
                  /\ UNCHANGED <<errors_logged, lastEnd>>
    /\ UNCHANGED <<iter, chan, rxClosed, sentLog, spub>>
    /\ UNCHANGED <<hostVars, displayVars>>

\* while let Ok(message) = settings_subscriber.recv_async().await {
\*     let json_message: String = message.value.try_into() ... ?;
\*     let settings_update = serde_json::from_str(&json_message) ... ?;
SettingsRecv ==
    /\ wpc = "recv"
    /\ sinbox # <<>>
    /\ LET id == Head(sinbox).id
           p == Head(sinbox).payload
       IN /\ deliveredLog' = Append(deliveredLog, [session |-> iter, id |-> id])
          /\ IF ~ValueIsString(p) THEN ReturnErr("decode_text")
             ELSE IF ~p.json THEN ReturnErr("decode_json")
             ELSE /\ wpc' = "send"
                  /\ sinbox' = Tail(sinbox)
                  /\ pending' = [id |-> id, update |-> ParseSettingsUpdate(p.obj)]
                  /\ UNCHANGED <<errors_logged, lastEnd>>
    /\ UNCHANGED <<iter, chan, rxClosed, sentLog, spub>>
    /\ UNCHANGED <<hostVars, displayVars>>

\* settings_subscriber.recv_async().await is Err: the while let ends and
\* run_zenoh_loop returns Ok(())
SettingsRecvErr ==
    /\ wpc = "recv"
    /\ ReturnOk("recv")
    /\ UNCHANGED <<iter, chan, rxClosed, sentLog, deliveredLog, spub>>
    /\ UNCHANGED <<hostVars, displayVars>>

\* (mutant) try_send in place of send: a full channel drops the update
TxSendDropping ==
    /\ wpc = "send"
    /\ IF rxClosed
       THEN /\ ReturnErr("closed")
            /\ UNCHANGED <<chan, sentLog>>
       ELSE /\ IF ChannelHasRoom
               THEN /\ chan' = Enqueue(chan, pending)
                    /\ sentLog' = Append(sentLog, pending.id)
               ELSE UNCHANGED <<chan, sentLog>>
            /\ wpc' = "recv"
            /\ pending' = NoPending
            /\ UNCHANGED <<sinbox, errors_logged, lastEnd>>
    /\ UNCHANGED <<iter, rxClosed, deliveredLog, spub>>
    /\ UNCHANGED <<hostVars, displayVars>>

\* (mutant) a send that swallows the closed-channel error and goes on
TxSendIgnoringClosed ==
    /\ wpc = "send"
    /\ IF rxClosed
       THEN UNCHANGED <<chan, sentLog>>
       ELSE /\ ChannelHasRoom
            /\ chan' = Enqueue(chan, pending)
            /\ sentLog' = Append(sentLog, pending.id)
    /\ wpc' = "recv"
    /\ pending' = NoPending
    /\ UNCHANGED <<sinbox, errors_logged, lastEnd>>
    /\ UNCHANGED <<iter, rxClosed, deliveredLog, spub>>
    /\ UNCHANGED <<hostVars, displayVars>>

\* tx.send(settings_update).await.context("Failed to send message on channel")?
\* the send waits for a permit; it is Err only when the receiver is gone
TxSend ==
    /\ wpc = "send"
    /\ IF rxClosed
       THEN /\ ReturnErr("closed")
            /\ UNCHANGED <<chan, sentLog>>
       ELSE /\ ChannelHasRoom
            /\ chan' = Enqueue(chan, pending)
            /\ sentLog' = Append(sentLog, pending.id)
            /\ wpc' = "recv"
            /\ pending' = NoPending
            /\ UNCHANGED <<sinbox, errors_logged, lastEnd>>
    /\ UNCHANGED <<iter, rxClosed, deliveredLog, spub>>
    /\ UNCHANGED <<hostVars, displayVars>>

----------------------------------------------------------------------------
(* The display task of one session *)

\* (mutant) a panic of the display task that takes run_zenoh_loop down with it
TaskPanicsAbortingWorker(s) ==
    /\ dtask' = [dtask EXCEPT ![s] = DeadTask]
    /\ ReturnErr("display")
    /\ UNCHANGED <<iter, deliveredLog>>

\* a failed expect() panics inside the spawned task: tokio ends that task,
\* dropping its display_subscriber, and nothing else
TaskPanics(s) ==
    /\ dtask' = [dtask EXCEPT ![s] = DeadTask]
    /\ UNCHANGED workerVars

\* while let Ok(message) = display_subscriber.recv_async().await {
\*     try_into().expect(..); serde_json::from_str(..).expect(..);
\*     if display_on { turn_on_display() } else { turn_off_display() }
\* a failed expect panics, which ends this task only
DisplayRecv(s) ==
    /\ s \in Spawned
    /\ dtask[s].st = "recv"
    /\ dtask[s].inbox # <<>>
    /\ LET id == Head(dtask[s].inbox).id
           p == Head(dtask[s].inbox).payload
       IN IF ~ValueIsString(p) \/ ~p.json
          THEN /\ TaskPanics(s)
               /\ UNCHANGED <<calls, lastCall>>
          ELSE /\ dtask' = [dtask EXCEPT ![s] =
                     [st |-> "calling", inbox |-> Tail(dtask[s].inbox), cur |-> id]]
               /\ UNCHANGED workerVars
               /\ LET call == [id |-> id, session |-> s, payload |-> p,
                               on |-> ParseDisplayControlMessage(p.obj).display_on]
                  IN /\ calls' = calls \cup {call}
                     /\ lastCall' = call
    /\ UNCHANGED <<hostVars, chan, rxClosed, sentLog, spub, dpub>>

\* turn_on_display().await.expect(..) / turn_off_display().await.expect(..)
DisplayCallDone(s, ok) ==
    /\ s \in Spawned
    /\ dtask[s].st = "calling"
    /\ IF ok
       THEN /\ dtask' = [dtask EXCEPT ![s] =
                  [st |-> "recv", inbox |-> dtask[s].inbox, cur |-> 0]]
            /\ UNCHANGED workerVars
       ELSE TaskPanics(s)
    /\ UNCHANGED <<hostVars, chan, rxClosed, sentLog, spub, dpub, calls, lastCall>>

\* display_subscriber.recv_async().await is Err: the task finishes
DisplayRecvErr(s) ==
    /\ s \in Spawned
    /\ dtask[s].st = "recv"
    /\ dtask' = [dtask EXCEPT ![s] = DeadTask]
    /\ UNCHANGED <<workerVars, hostVars, chan, rxClosed, sentLog, spub, dpub, calls, lastCall>>

----------------------------------------------------------------------------
(* The host: process_noise_generator_update_messages, once per frame *)

\* (mutant) a receive that shares a lock with the sender: it waits while the
\* worker is inside tx.send
TickRecvBehindSend ==
    /\ ~rxClosed
    /\ chan # <<>>
    /\ wpc # "send"
    /\ LET message == Head(chan)
       IN /\ chan' = TryRecvRest(chan)
          /\ settings' = ApplySettings(settings, message.update)
          /\ octaves' = ApplyOctaves(octaves, message.update)
          /\ setOctavesLog' =
                IF message.update.perlin_noise_octaves # None
                THEN Append(setOctavesLog, Unwrap(message.update.perlin_noise_octaves))
                ELSE setOctavesLog
          /\ appliedLog' = Append(appliedLog, message.id)
          /\ tickUpdates' = Append(tickUpdates, message.update)
    /\ UNCHANGED tickStart
    /\ UNCHANGED <<workerVars, displayVars, rxClosed, sentLog, spub>>

\* (mutant) set_octaves is called for every update, with the current octaves
\* when the update leaves the field out
TickRecvAlwaysSetOctaves ==
    /\ ~rxClosed
    /\ chan # <<>>
    /\ LET message == Head(chan)
       IN /\ chan' = TryRecvRest(chan)
          /\ settings' = ApplySettings(settings, message.update)
          /\ octaves' = ApplyOctaves(octaves, message.update)
          /\ setOctavesLog' = Append(setOctavesLog, ApplyOctaves(octaves, message.update))
          /\ appliedLog' = Append(appliedLog, message.id)
          /\ tickUpdates' = Append(tickUpdates, message.update)
    /\ UNCHANGED tickStart
    /\ UNCHANGED <<workerVars, displayVars, rxClosed, sentLog, spub>>

\* receiver.try_recv() is Ok(message): one turn of the while let
TickRecv ==
    /\ ~rxClosed
    /\ chan # <<>>
    /\ LET message == Head(chan)
       IN /\ chan' = TryRecvRest(chan)
          /\ settings' = ApplySettings(settings, message.update)
          /\ octaves' = ApplyOctaves(octaves, message.update)
          /\ setOctavesLog' =
                IF message.update.perlin_noise_octaves # None
                THEN Append(setOctavesLog, Unwrap(message.update.perlin_noise_octaves))
                ELSE setOctavesLog
          /\ appliedLog' = Append(appliedLog, message.id)
          /\ tickUpdates' = Append(tickUpdates, message.update)
    /\ UNCHANGED tickStart
    /\ UNCHANGED <<workerVars, displayVars, rxClosed, sentLog, spub>>

\* receiver.try_recv() is Err(Empty): the while let ends, the system returns
TickEmpty ==
    /\ ~rxClosed
    /\ chan = <<>>
    /\ tickStart' = [settings |-> settings, octaves |-> octaves]
    /\ tickUpdates' = <<>>
    /\ UNCHANGED <<settings, octaves, appliedLog, setOctavesLog>>
    /\ UNCHANGED <<workerVars, displayVars, chan, rxClosed, sentLog, spub>>

\* the App exits: the StreamReceiver resource is dropped, which closes the
\* channel and drops what is still queued
HostShutdown ==
    /\ ~rxClosed
    /\ rxClosed' = TRUE
    /\ chan' = <<>>
    /\ UNCHANGED <<workerVars, hostVars, displayVars, sentLog, spub>>

----------------------------------------------------------------------------
(* The bus: publishers outside the program *)

\* a sample on face/settings reaches the live settings_subscriber
PublishSettings(p, limit) ==
    /\ SettingsSubscribed
    /\ spub < limit
    /\ spub' = spub + 1
    /\ sinbox' = Append(sinbox, [id |-> spub + 1, payload |-> p])
    /\ UNCHANGED <<wpc, iter, pending, errors_logged, deliveredLog, lastEnd>>
    /\ UNCHANGED <<hostVars, displayVars, chan, rxClosed, sentLog>>

\* a sample on face/display reaches every live display_subscriber
PublishDisplay(p) ==
    /\ LiveDisplayTasks # {}
    /\ dpub < MaxDisplayMsgs
    /\ dpub' = dpub + 1
    /\ dtask' = [s \in Spawned |->
          IF TaskAlive(s)
          THEN [dtask[s] EXCEPT !.inbox = Append(@, [id |-> dpub + 1, payload |-> p])]
          ELSE dtask[s]]
    /\ UNCHANGED <<workerVars, hostVars, chan, rxClosed, sentLog, spub, calls, lastCall>>

----------------------------------------------------------------------------
(* Specifications *)

\* The program with publishers on face/settings only
Next ==
    \/ \E ok \in BOOLEAN : OpenSession(ok)
    \/ \E ok \in BOOLEAN : DeclareSettingsSubscriber(ok)
    \/ \E ok \in BOOLEAN : DeclareDisplaySubscriber(ok)
    \/ SettingsRecv
    \/ SettingsRecvErr
    \/ TxSend
    \/ \E s \in 1..MaxIterations : DisplayRecvErr(s)
    \/ TickRecv
    \/ TickEmpty
    \/ HostShutdown
    \/ \E p \in SettingsPayloads : PublishSettings(p, MaxSettingsMsgs)

Spec == Init /\ [][Next]_vars

\* The program with publishers on face/display and on face/settings
NextDisplay ==
    \/ \E ok \in BOOLEAN : OpenSession(ok)
    \/ \E ok \in BOOLEAN : DeclareSettingsSubscriber(ok)
    \/ \E ok \in BOOLEAN : DeclareDisplaySubscriber(ok)
    \/ SettingsRecv
    \/ SettingsRecvErr
    \/ TxSend
    \/ \E s \in 1..MaxIterations : DisplayRecv(s)
    \/ \E s \in 1..MaxIterations, ok \in BOOLEAN : DisplayCallDone(s, ok)
    \/ \E s \in 1..MaxIterations : DisplayRecvErr(s)
    \/ TickRecv
    \/ TickEmpty
    \/ \E p \in FewSettingsPayloads : PublishSettings(p, MaxSettingsMsgsDisplay)
    \/ \E p \in DisplayPayloads : PublishDisplay(p)

SpecDisplay == Init /\ [][NextDisplay]_vars

\* A burst of BurstSize well-formed settings messages on a healthy transport
NextBurst ==
    \/ OpenSession(TRUE)
    \/ DeclareSettingsSubscriber(TRUE)
    \/ DeclareDisplaySubscriber(TRUE)
    \/ SettingsRecv
    \/ TxSend
    \/ TickRecv
    \/ TickEmpty
    \/ HostShutdown
    \/ PublishSettings(BurstPayload(spub + 1), BurstSize)

\* the worker thread and the frame loop both keep running
SpecBurst ==
    /\ Init
    /\ [][NextBurst]_vars
    /\ WF_vars(OpenSession(TRUE))
    /\ WF_vars(DeclareSettingsSubscriber(TRUE))
    /\ WF_vars(DeclareDisplaySubscriber(TRUE))
    /\ WF_vars(SettingsRecv)
    /\ WF_vars(TxSend)
    /\ WF_vars(TickRecv)

\* A burst of well-formed settings messages next to face/display traffic, on
\* a healthy transport, while the frame loop is not scheduled: the channel
\* fills and stays full
NextBoth ==
    \/ OpenSession(TRUE)
    \/ DeclareSettingsSubscriber(TRUE)
    \/ DeclareDisplaySubscriber(TRUE)
    \/ SettingsRecv
    \/ TxSend
    \/ \E s \in 1..MaxIterations : DisplayRecv(s)
    \/ \E s \in 1..MaxIterations, ok \in BOOLEAN : DisplayCallDone(s, ok)
    \/ PublishSettings(BurstPayload(spub + 1), BurstSize)
    \/ \E p \in DisplayPayloads : PublishDisplay(p)

SpecBoth == Init /\ [][NextBoth]_vars

\* The program with publishers on face/settings only, sending one decodable
\* and one undecodable payload
NextTicking ==
    \/ \E ok \in BOOLEAN : OpenSession(ok)
    \/ \E ok \in BOOLEAN : DeclareSettingsSubscriber(ok)
    \/ \E ok \in BOOLEAN : DeclareDisplaySubscriber(ok)
    \/ SettingsRecv
    \/ SettingsRecvErr
    \/ TxSend
    \/ \E s \in 1..MaxIterations : DisplayRecvErr(s)
    \/ TickRecv
    \/ TickEmpty
    \/ HostShutdown
    \/ \E p \in FewSettingsPayloads : PublishSettings(p, MaxSettingsMsgs)

\* the frame loop keeps running
SpecTicking ==
    /\ Init
    /\ [][NextTicking]_vars
    /\ WF_vars(TickRecv)

----------------------------------------------------------------------------
(* Helpers of the properties *)

Ids(q) == [i \in 1..Len(q) |-> q[i].id]

RECURSIVE LastPopulated(_, _, _)
\* the value of field f in the last update of us that populates it, else dflt
LastPopulated(f, us, dflt) ==
    IF us = <<>> THEN dflt
    ELSE IF us[Len(us)][f] # None THEN Unwrap(us[Len(us)][f])
    ELSE LastPopulated(f, SubSeq(us, 1, Len(us) - 1), dflt)

IsEmptyUpdate(u) == \A f \in UpdateFields : u[f] = None

\* the updates held on the producer side of a suspended or about-to-run send
PendingIds == IF wpc = "send" THEN <<pending.id>> ELSE <<>>

\* the value a whole burst leaves in field f
BurstFinal(f, dflt) ==
    LET S == {i \in 1..BurstSize : f \in DOMAIN BurstPayload(i).obj}
    IN IF S = {} THEN dflt
       ELSE BurstPayload(CHOOSE i \in S : \A j \in S : j <= i).obj[f]

----------------------------------------------------------------------------
(* C1 *)

\* C1: whatever updates the running tick has drained so far, every field of
\* the live settings (and the generator's octaves) holds the value of the last
\* drained update that populates it, and the value it had when the tick began
\* if none does; an empty update changes nothing.
C1_LastPopulatedWins ==
    /\ \A f \in SettingsFields :
          settings[f] = LastPopulated(f, tickUpdates, tickStart.settings[f])
    /\ octaves = LastPopulated("perlin_noise_octaves", tickUpdates, tickStart.octaves)

\* one tick has drained two updates that populate width_divider with
\* different values, and an empty update
C1_Witness ==
    /\ \E i, j \in 1..Len(tickUpdates) :
          /\ i < j
          /\ tickUpdates[i].width_divider # None
          /\ tickUpdates[j].width_divider # None
          /\ tickUpdates[i].width_divider # tickUpdates[j].width_divider
    /\ \E k \in 1..Len(tickUpdates) : IsEmptyUpdate(tickUpdates[k])
    /\ settings.height_multiplier # tickStart.settings.height_multiplier

----------------------------------------------------------------------------
(* C2 *)

\* C2: while the host runs, the updates the channel accepted are exactly the
\* updates the host has drained followed by the updates still queued, in that
\* order: nothing accepted is lost, duplicated or reordered, whatever the
\* interleaving of sends, ticks and session ends.
C2_NoLoss ==
    ~rxClosed => sentLog = appliedLog \o Ids(chan)

\* updates of two sessions are queued together behind one already drained
C2_Witness ==
    /\ ~rxClosed
    /\ Len(chan) >= 2
    /\ Len(appliedLog) >= 1
    /\ \E a, b \in 1..Len(deliveredLog) :
          /\ deliveredLog[a].session # deliveredLog[b].session
          /\ deliveredLog[a].id = chan[1].id
          /\ deliveredLog[b].id = chan[2].id

----------------------------------------------------------------------------
(* C3 *)

AppliedPos(id) == CHOOSE k \in 1..Len(appliedLog) : appliedLog[k] = id

WasApplied(id) == \E k \in 1..Len(appliedLog) : appliedLog[k] = id

\* C3: two samples delivered on the same settings subscription and both
\* applied are applied in the order of their delivery, and each once.
C3_DeliveryOrderKept ==
    /\ \A a, b \in 1..Len(deliveredLog) :
          (/\ a < b
           /\ deliveredLog[a].session = deliveredLog[b].session
           /\ WasApplied(deliveredLog[a].id)
           /\ WasApplied(deliveredLog[b].id))
          => AppliedPos(deliveredLog[a].id) < AppliedPos(deliveredLog[b].id)
    /\ \A i \in 1..Len(appliedLog) :
          \E a \in 1..Len(deliveredLog) : deliveredLog[a].id = appliedLog[i]

\* two samples of one subscription were queued together and then applied
C3_Witness ==
    /\ Len(appliedLog) >= 2
    /\ \E a, b \in 1..Len(deliveredLog) :
          /\ a < b
          /\ deliveredLog[a].session = deliveredLog[b].session
          /\ deliveredLog[a].id = appliedLog[1]
          /\ deliveredLog[b].id = appliedLog[2]
    /\ Len(tickUpdates) >= 2

----------------------------------------------------------------------------
(* C4 *)

\* C4: the channel never holds more than ChannelCapacity updates; a send that
\* finds it full while the host runs cannot complete (the worker can take no
\* step) and keeps its update; every delivered sample is sent or still held
\* by the send while no run of run_zenoh_loop has ended; and a run ends with
\* the closed-channel error only after the receiver was dropped.
C4_BoundedBackpressure ==
    /\ Len(chan) <= ChannelCapacity
    /\ (wpc = "send" /\ ~rxClosed /\ Len(chan) = ChannelCapacity)
          => (~ENABLED TxSend /\ pending.id # 0)
    /\ lastEnd = "none" => Ids(deliveredLog) = sentLog \o PendingIds
    /\ lastEnd = "closed" => rxClosed

\* a send is suspended on the full channel, with more samples waiting
C4_Witness ==
    /\ wpc = "send"
    /\ ~rxClosed
    /\ Len(chan) = ChannelCapacity
    /\ sinbox # <<>>

----------------------------------------------------------------------------
(* C5 *)

BurstApplied ==
    /\ appliedLog = [i \in 1..BurstSize |-> i]
    /\ \A f \in SettingsFields : settings[f] = BurstFinal(f, DefaultSettings[f])
    /\ octaves = BurstFinal("perlin_noise_octaves", PERLIN_NOISE_OCTAVES)

\* C5: once the whole burst has been published to one session, then, the
\* worker and the frame loop running on, either that session's run ends or the
\* host shuts down, or all BurstSize updates get applied in delivery order and
\* the live settings hold the value of the last update of each field.
C5_BurstEventuallyApplied ==
    (spub = BurstSize /\ lastEnd = "none")
        ~> (lastEnd # "none" \/ rxClosed \/ BurstApplied)

\* the burst outran the host: everything is published, nothing is drained,
\* the channel is full and the eleventh send is suspended
C5_Backlog ==
    /\ spub = BurstSize
    /\ lastEnd = "none"
    /\ ~rxClosed
    /\ appliedLog = <<>>
    /\ Len(chan) = ChannelCapacity
    /\ wpc = "send"
    /\ Len(sinbox) = BurstSize - ChannelCapacity - 1

\* the burst is applied in full
C5_Witness ==
    /\ BurstApplied
    /\ ~rxClosed
    /\ lastEnd = "none"

----------------------------------------------------------------------------
(* C6 *)

CallsFor(id) == {c \in calls : c.id = id}

\* C6: every face/display sample published to a subscribed worker causes at
\* most one DisplayController call in total, turn_on_display when display_on
\* is true and turn_off_display when it is false or absent.
C6_OneCallPerMessage ==
    \A id \in 1..dpub :
        /\ Cardinality(CallsFor(id)) <= 1
        /\ \A c \in CallsFor(id) :
              c.on = (c.payload = Json("display_on" :> TRUE))

----------------------------------------------------------------------------
(* C7 *)

WorkerPlaces == {"open", "sub_settings", "sub_display", "recv", "send"}

\* the order of the awaits inside one run of run_zenoh_loop
InsideRun ==
    { <<"open", "sub_settings">>, <<"sub_settings", "sub_display">>,
      <<"sub_display", "recv">>, <<"recv", "send">>, <<"send", "recv">> }

\* C7: the worker is always at one of the awaits of its loop; every step of
\* the worker either moves on inside the running call of run_zenoh_loop or
\* brings it back to the call that opens a new session, which it can always
\* take; and the host's tick can always take its next step.
C7_WorkerNeverExits ==
    /\ [](wpc \in WorkerPlaces)
    /\ []((wpc = "open" /\ iter < MaxIterations) => ENABLED OpenSession(TRUE))
    /\ [](~rxClosed => ENABLED (TickRecv \/ TickEmpty))
    /\ [][(wpc' # wpc \/ iter' # iter)
             => (<<wpc, wpc'>> \in InsideRun \/ wpc' = "open")]_vars

\* after a logged failure and a display task that died, the worker is
\* subscribed again on a later session
C7_Witness ==
    /\ iter >= 2
    /\ errors_logged >= 1
    /\ wpc = "recv"
    /\ \E s \in Spawned : ~TaskAlive(s)

----------------------------------------------------------------------------
(* C8 *)

\* the step ends a display task
DisplayTaskEnds(s) == s \in Spawned /\ dtask[s].st # "dead" /\ dtask'[s].st = "dead"

\* the step ends a run of run_zenoh_loop
RunEnds == errors_logged' # errors_logged \/ lastEnd' # lastEnd

----------------------------------------------------------------------------
(* C9 *)

\* C9: the only display task (and display subscriber) alive is the one of the
\* running session; none of an ended run survives.
C9_NoSubscriptionSurvivesReconnect ==
    /\ \A s \in LiveDisplayTasks : s = iter /\ wpc \in {"recv", "send"}
    /\ Cardinality(LiveDisplayTasks) <= 1

----------------------------------------------------------------------------
(* C10 *)

CallsOf(s) == {c \in calls : c.session = s}

\* C10: the step that ends a display task changes nothing of the worker, the
\* channel, the settings or any other display task; a task that ended stays
\* ended and makes no further call; and with its display task ended the running
\* session can still receive its next settings sample and send its update.
C10_DisplayFailureIsLocal ==
    /\ [][\A s \in Spawned : DisplayTaskEnds(s) =>
             /\ UNCHANGED <<workerVars, chan, sentLog, hostVars>>
             /\ \A t \in Spawned \ {s} : dtask'[t] = dtask[t]]_vars
    /\ [][\A s \in Spawned : dtask[s].st = "dead" =>
             /\ dtask'[s] = dtask[s]
             /\ {c \in calls' : c.session = s} = CallsOf(s)]_vars
    /\ []((iter \in Spawned /\ ~TaskAlive(iter)) =>
             /\ (wpc = "recv" /\ sinbox # <<>>) => ENABLED SettingsRecv
             /\ (wpc = "send" /\ ChannelHasRoom) => ENABLED TxSend)

\* the running session's display task ended on a sample it could not decode
\* or a call that failed, and a settings sample is waiting to be received
C10_Witness ==
    /\ iter \in Spawned
    /\ ~TaskAlive(iter)
    /\ dpub >= 1
    /\ wpc = "recv"
    /\ sinbox # <<>>
    /\ lastEnd = "none"

----------------------------------------------------------------------------
(* C11 *)

\* the send of the settings path is waiting for a permit of the full channel
SendSuspended == wpc = "send" /\ ~rxClosed /\ ~ChannelHasRoom

\* C11: while a display task is inside a turn_on_display / turn_off_display
\* call, the settings path can take its next step (receive and decode a
\* waiting sample, enqueue the update it holds when the channel has room);
\* while the send is suspended on the full channel, every display task can
\* take its next step (receive a waiting sample, finish its call); and a step
\* of a display task changes nothing of the settings path.
C11_PathsDoNotStall ==
    /\ []((\E s \in Spawned : dtask[s].st = "calling") =>
             /\ (wpc = "recv" /\ sinbox # <<>>) => ENABLED SettingsRecv
             /\ (wpc = "send" /\ ~rxClosed /\ ChannelHasRoom) => ENABLED TxSend)
    /\ [](SendSuspended =>
             \A s \in Spawned :
                /\ (dtask[s].st = "recv" /\ dtask[s].inbox # <<>>)
                      => ENABLED DisplayRecv(s)
                /\ dtask[s].st = "calling" => ENABLED DisplayCallDone(s, TRUE))
    /\ [][(\E s \in Spawned : dtask'[s].st # dtask[s].st)
             => UNCHANGED <<workerVars, chan, sentLog>>]_vars

\* the send is suspended on the full channel with samples waiting, while the
\* display task, having handled one sample, is inside the call for the next
C11_Witness ==
    /\ SendSuspended
    /\ sinbox # <<>>
    /\ \E s \in Spawned : dtask[s].st = "calling" /\ dtask[s].cur = 2
    /\ Cardinality(calls) = 2

----------------------------------------------------------------------------
(* C12 *)

\* C12: while the host runs, its tick can always take its next step, whatever
\* the worker is doing: take the head of the queue when something is queued,
\* return when nothing is; a tick returns only once the queue is empty, having
\* taken the queued updates from the head, one by one; and whatever happens
\* while nothing is queued leaves the live settings, the octaves and the list
\* of applied updates as they are.
C12_DrainNeverWaits ==
    /\ [](~rxClosed =>
             /\ chan # <<>> => ENABLED TickRecv
             /\ chan = <<>> => ENABLED TickEmpty)
    /\ [][(tickUpdates # <<>> /\ tickUpdates' = <<>>) => chan = <<>>]_vars
    /\ [][appliedLog' # appliedLog =>
             /\ chan # <<>>
             /\ appliedLog' = Append(appliedLog, Head(chan).id)
             /\ chan' = Tail(chan)]_vars
    /\ [][chan = <<>> =>
             UNCHANGED <<settings, octaves, appliedLog, setOctavesLog>>]_vars

\* a tick that has drained updates meets the full channel again, the worker
\* suspended on its next send
C12_Witness ==
    /\ ~rxClosed
    /\ tickUpdates # <<>>
    /\ Len(chan) = ChannelCapacity
    /\ wpc = "send"
    /\ sinbox # <<>>

----------------------------------------------------------------------------
(* C13 *)

\* the payload is not text, or is text that does not parse
Undecodable(p) == ~ValueIsString(p) \/ ~p.json

DecodeEnds == {"decode_text", "decode_json"}

\* C13: the step that receives an undecodable settings sample ends the run
\* with a logged error, drops the subscription, and leaves the channel, the
\* list of sent updates and the live settings as they are; the worker can then
\* open a new session; only a decodable sample becomes the update held for
\* sending, and only the held update is ever enqueued.
C13_DecodeFailureAbortsRun ==
    /\ [][(deliveredLog' # deliveredLog /\ Undecodable(Head(sinbox).payload)) =>
             /\ wpc' = "open"
             /\ errors_logged' = errors_logged + 1
             /\ lastEnd' \in DecodeEnds
             /\ sinbox' = <<>>
             /\ pending' = NoPending
             /\ UNCHANGED <<chan, sentLog, appliedLog, settings, octaves>>]_vars
    /\ [][(pending' # pending /\ pending'.id # 0) =>
             /\ ~Undecodable(Head(sinbox).payload)
             /\ pending'.id = Head(sinbox).id]_vars
    /\ [][sentLog' # sentLog =>
             /\ pending.id # 0
             /\ sentLog' = Append(sentLog, pending.id)
             /\ chan' = Append(chan, pending)]_vars
    /\ []((wpc = "open" /\ lastEnd \in DecodeEnds /\ iter < MaxIterations)
             => ENABLED OpenSession(TRUE))
    /\ []((wpc = "open" /\ lastEnd \in DecodeEnds) =>
             LET id == deliveredLog[Len(deliveredLog)].id
             IN \A k \in 1..Len(sentLog) : sentLog[k] # id)

\* a run ended on an undecodable sample with an update queued; the update is
\* still queued when the next session is subscribed
C13_Witness ==
    /\ lastEnd \in DecodeEnds
    /\ errors_logged >= 1
    /\ chan # <<>>
    /\ ~rxClosed
    /\ iter >= 2
    /\ wpc = "recv"

----------------------------------------------------------------------------
(* C14 *)

\* C14: once the receiver is gone a send does not wait: it can complete, and
\* the step that completes it ends the run with the closed-channel error,
\* logged, dropping the subscription and the held update and enqueuing
\* nothing; a run ends that way only after the receiver was dropped; the
\* worker stays in its loop and can open the next session.
C14_ClosedChannelReconnects ==
    /\ []((wpc = "send" /\ rxClosed) => ENABLED TxSend)
    /\ [][(wpc = "send" /\ rxClosed /\ wpc' # wpc) =>
             /\ wpc' = "open"
             /\ lastEnd' = "closed"
             /\ errors_logged' = errors_logged + 1
             /\ sinbox' = <<>>
             /\ pending' = NoPending
             /\ UNCHANGED <<chan, sentLog, iter>>]_vars
    /\ [][rxClosed => UNCHANGED <<chan, sentLog>>]_vars
    /\ [](lastEnd = "closed" => (rxClosed /\ errors_logged >= 1))
    /\ [](wpc \in WorkerPlaces)
    /\ []((wpc = "open" /\ iter < MaxIterations) => ENABLED OpenSession(TRUE))

\* the host shut down with the channel full and nothing drained; the send of
\* the eleventh update failed, and the worker is subscribed on a new session
C14_Witness ==
    /\ rxClosed
    /\ lastEnd = "closed"
    /\ Len(sentLog) = ChannelCapacity
    /\ appliedLog = <<>>
    /\ Len(deliveredLog) > ChannelCapacity
    /\ iter >= 2
    /\ wpc = "recv"

----------------------------------------------------------------------------
(* C15 *)

\* the step ends a call of run_zenoh_loop: the worker is back at the call
\* that opens a session
IterationEnds == wpc' = "open" /\ (wpc # "open" \/ iter' = iter + 1)

\* C15: every step that ends an iteration writes one error line.
C15_EveryFailureLogged ==
    [][IterationEnds => errors_logged' = errors_logged + 1]_vars

----------------------------------------------------------------------------
(* C16 *)

InChan(id) == \E k \in 1..Len(chan) : chan[k].id = id

\* C16: the end of an iteration and the opening of the next session leave the
\* channel, its queue and its receiver as they are; and, the frame loop
\* running on, every queued update is applied unless the host shuts down.
C16_ChannelSurvivesReconnect ==
    /\ [][IterationEnds => UNCHANGED <<chan, sentLog, rxClosed, hostVars>>]_vars
    /\ [][(wpc = "open" /\ wpc' # "open") => UNCHANGED <<chan, sentLog, rxClosed>>]_vars
    /\ \A id \in 1..MaxSettingsMsgs : InChan(id) ~> (WasApplied(id) \/ rxClosed)

\* an update queued by the first session is still queued, nothing applied
\* yet, while the second session holds its own update for the same channel
C16_Witness ==
    /\ ~rxClosed
    /\ iter >= 2
    /\ lastEnd # "none"
    /\ appliedLog = <<>>
    /\ chan # <<>>
    /\ \E a \in 1..Len(deliveredLog) :
          deliveredLog[a].id = chan[1].id /\ deliveredLog[a].session = 1
    /\ wpc = "send"

----------------------------------------------------------------------------
(* C17 *)

RECURSIVE OctavesCalls(_)
\* the perlin_noise_octaves values of the burst messages ids, in order
OctavesCalls(ids) ==
    IF ids = <<>> THEN <<>>
    ELSE LET o == BurstPayload(Head(ids)).obj
         IN (IF "perlin_noise_octaves" \in DOMAIN o
             THEN <<o["perlin_noise_octaves"]>>
             ELSE <<>>) \o OctavesCalls(Tail(ids))

\* C17: the set_octaves calls made so far are the perlin_noise_octaves values
\* of the applied updates that populate the field, in application order; the
\* step that applies an update calls set_octaves once, with the update's
\* value, when the field is populated, and not at all when it is absent; no
\* other step calls it.
C17_SetOctavesOncePerPopulatedUpdate ==
    /\ [](setOctavesLog = OctavesCalls(appliedLog))
    /\ [][appliedLog' # appliedLog =>
             LET n == Head(chan).update.perlin_noise_octaves
             IN IF n # None
                THEN setOctavesLog' = Append(setOctavesLog, Unwrap(n))
                ELSE UNCHANGED <<setOctavesLog, octaves>>]_vars
    /\ [][appliedLog' = appliedLog => UNCHANGED <<setOctavesLog, octaves>>]_vars

\* one tick drained the updates 5 (perlin_noise_octaves), 6 (empty) and 7
\* (width_divider): set_octaves(5) was called once, width_divider is 7 and the
\* other fields are as the tick found them
C17_Witness ==
    /\ appliedLog = <<1, 2, 3, 4, 5, 6, 7>>
    /\ Len(tickUpdates) = 3
    /\ tickUpdates[1].perlin_noise_octaves = Some(5)
    /\ tickUpdates[3].width_divider = Some(7)
    /\ setOctavesLog = <<5>>
    /\ octaves = 5
    /\ settings = [tickStart.settings EXCEPT !.width_divider = 7]

----------------------------------------------------------------------------
(* C18 *)

\* C18: a step that changes anything of the worker, of a display task or of
\* what was published or sent leaves the live settings, the octaves and the
\* host's records as they are; the live settings and the octaves change only
\* in the step of the tick that takes the head of the queue, and become what
\* the merge of that update gives.
C18_OnlyTheTickWritesSettings ==
    /\ [][(workerVars' # workerVars \/ displayVars' # displayVars
              \/ sentLog' # sentLog \/ spub' # spub)
             => UNCHANGED hostVars]_vars
    /\ [][(settings' # settings \/ octaves' # octaves) =>
             /\ ~rxClosed
             /\ chan # <<>>
             /\ chan' = Tail(chan)
             /\ settings' = ApplySettings(settings, Head(chan).update)
             /\ octaves' = ApplyOctaves(octaves, Head(chan).update)
             /\ UNCHANGED <<workerVars, displayVars, sentLog>>]_vars

\* the tick has changed the live settings, and the worker has meanwhile made
\* a display call, lost a display task and ended a run
C18_Witness ==
    /\ settings # DefaultSettings
    /\ calls # {}
    /\ lastEnd # "none"
    /\ \E s \in Spawned : ~TaskAlive(s)
    /\ iter >= 2

----------------------------------------------------------------------------
(* C19 *)

NoDuplicates(q) == \A i, j \in 1..Len(q) : q[i] = q[j] => i = j

\* C19: no sample is handed out twice by the settings subscriptions, no
\* update is enqueued twice or applied twice, an update still queued or held
\* by the worker has not been applied or enqueued before, and every applied
\* update is one that was enqueued.
C19_AtMostOnce ==
    /\ NoDuplicates(Ids(deliveredLog))
    /\ NoDuplicates(sentLog)
    /\ NoDuplicates(appliedLog)
    /\ NoDuplicates(Ids(chan))
    /\ \A k \in 1..Len(chan) : ~WasApplied(chan[k].id)
    /\ pending.id # 0 => \A k \in 1..Len(sentLog) : sentLog[k] # pending.id
    /\ \A i \in 1..Len(appliedLog) :
          \E k \in 1..Len(sentLog) : sentLog[k] = appliedLog[i]
    /\ Len(appliedLog) <= Len(deliveredLog)

\* three samples were handed out over two sessions: one ended the first run,
\* the other two were applied, once each
C19_Witness ==
    /\ Len(deliveredLog) = 3
    /\ Len(appliedLog) = 2
    /\ lastEnd \in DecodeEnds
    /\ iter >= 2
    /\ chan = <<>>
    /\ \E a, b \in 1..3 :
          /\ deliveredLog[a].session # deliveredLog[b].session
          /\ WasApplied(deliveredLog[a].id)
          /\ WasApplied(deliveredLog[b].id)

----------------------------------------------------------------------------
(* C20 *)

SetupEnds == {"open", "subscribe_settings", "subscribe_display"}

\* C20: a display task appears only in the step in which the declaration of
\* the display subscriber succeeds, for the running session, with nothing
\* logged; that declaration is reached only from the successful declaration
\* of the settings subscriber, and that one only from the successful open;
\* while a session is being set up, and after its setup failed, it has no
\* display task and no call; and every call is made by a spawned task.
C20_SpawnAfterBothSubscriptions ==
    /\ [][Spawned' # Spawned =>
             /\ wpc = "sub_display"
             /\ wpc' = "recv"
             /\ iter \notin Spawned
             /\ Spawned' = Spawned \cup {iter}
             /\ UNCHANGED <<iter, errors_logged, lastEnd, calls>>]_vars
    /\ [][(wpc' = "sub_display" /\ wpc # "sub_display") => wpc = "sub_settings"]_vars
    /\ [][(wpc' = "sub_settings" /\ wpc # "sub_settings") => wpc = "open"]_vars
    /\ [](wpc \in {"sub_settings", "sub_display"} =>
             (iter \notin Spawned /\ CallsOf(iter) = {}))
    /\ []((wpc = "open" /\ lastEnd \in SetupEnds) =>
             (iter \notin Spawned /\ CallsOf(iter) = {}))
    /\ [](\A c \in calls : c.session \in Spawned /\ c.session <= iter)

\* the first session made a display call; the second failed at the
\* declaration of its display subscriber and has no display task
C20_Witness ==
    /\ iter = 2
    /\ wpc = "open"
    /\ lastEnd = "subscribe_display"
    /\ Spawned = {1}
    /\ CallsOf(1) # {}

----------------------------------------------------------------------------
(* C21 *)

\* the display tasks inside a turn_on_display / turn_off_display call
Calling == {s \in Spawned : dtask[s].st = "calling"}

\* every live display task has handled all it was delivered
AllDispatched ==
    \A s \in Spawned : TaskAlive(s) => (dtask[s].st = "recv" /\ dtask[s].inbox = <<>>)

\* C21: at most one DisplayController call is in progress; the calls are made
\* in the order of the samples, so that no call was made for a sample later
\* than the one of the latest call; and once everything delivered has been
\* handled, the latest call is the one for the last sample that caused a call.
C21_CallsInOrderNeverOverlap ==
    /\ Cardinality(Calling) <= 1
    /\ \A c \in calls : c.id <= lastCall.id
    /\ \A s \in Calling : dtask[s].cur = lastCall.id
    /\ (AllDispatched /\ calls # {}) =>
          \A id \in 1..dpub : CallsFor(id) # {} => id <= lastCall.id

====
